---- MODULE Spec2Model ----
(***************************************************************************)
(* The no-var lint rule of deno_lint (src/rules/no_var.rs).                *)
(*                                                                         *)
(* NoVar.lint_program builds a NoVarVisitor around the Context it is given *)
(* and walks the program (Module or Script) depth first.  The visitor      *)
(* overrides visit_var_decl (report a var declaration, do not descend)   *)
(* and, through noop_visit_type!, the visit methods of type-only nodes     *)
(* (do nothing, do not descend).  Every other node kind takes the default  *)
(* visit method, which visits the node's children in the order of the      *)
(* fields of its struct: source order, except for a do-while statement,    *)
(* whose test is visited before its body.                                  *)
(*                                                                         *)
(* The recursion of the visitor is modelled by an explicit stack of nodes  *)
(* still to visit: one action per visit method.                            *)
(***************************************************************************)
EXTENDS Integers, Sequences, FiniteSets, TLC

\* ------------------------------------------------------------------ bounds
\* Largest number of nodes below the program root, one traversal.
MaxNodes == 4
\* Largest number of nodes below the program root, two traversals.
MaxNodesConc == 3

\* --------------------------------------------------------------- constants
\* The text of MESSAGE, byte for byte: a TLA+ string cannot hold the backquote
\* (96) that stands before and after var, so the text is kept as the sequence
\* of its character codes.
MESSAGE ==
  <<96, 118, 97, 114, 96, 32, 107, 101, 121, 119, 111, 114,
    100, 32, 105, 115, 32, 110, 111, 116, 32, 97, 108, 108,
    111, 119, 101, 100, 46>>
CODE == "no-var"

\* Width of one statement of the test sources, separator included:
\* "let foo = 0; " and "var bar = 1; " are 13 characters, so the statements of
\* "let foo = 0; var bar = 1; var x = 2;" start at columns 0, 13 and 26.
Stride == 13

\* VarDeclKind of a variable declaration.
VarDeclKinds == {"var", "let", "const"}
\* Node kinds: the three kinds of VarDecl, a type-only node (one whose visit
\* method noop_visit_type! overrides), a do-while statement (DoWhileStmt, whose
\* fields are test, body: the test stands after the body in the source), and
\* any other node (its fields stand in source order).
Kinds == VarDeclKinds \cup {"type", "do_while", "other"}

\* The two variants of ProgramRef.
Variants == {"Module", "Script"}

\* The traversals (one per rule invocation); each has its own Context.
Runs == {1, 2}

VARIABLES
  tree,     \* the parsed syntax tree below the root: a sequence of nodes in
            \* source (pre-)order, each [kind, parent, span]; parent 0 = root
  variant,  \* variant[t]: the ProgramRef variant handed to traversal t
  pc,       \* pc[t]: "idle" | "ready" | "walking" | "done"
  stack,    \* stack[t]: nodes whose visit method is still to be called
  ctx,      \* ctx[t]: the diagnostics of the Context of traversal t
  ctx0,     \* ctx0[t]: the diagnostics of that Context when lint_program was called
  visits,   \* visits[t][n]: how many times traversal t called a visit method on n
  entry     \* entry[t]: the traversal entry points lint_program invoked

vars == <<tree, variant, pc, stack, ctx, ctx0, visits, entry>>

\* ------------------------------------------------------------------- trees
RECURSIVE Ancestors(_, _)
\* The proper ancestors of node i (the root, 0, excluded) under parent map p.
Ancestors(p, i) ==
  IF p[i] = 0 THEN {} ELSE {p[i]} \cup Ancestors(p, p[i])

\* Parent maps over n nodes numbered in source order: the parent of a node is
\* the root or lies on the path from the root to the node before it.
ParentMaps(n) ==
  { p \in [1..n -> 0..n] :
      \A i \in 1..n :
        /\ p[i] < i
        /\ (i > 1 => p[i] \in {0, i - 1} \cup Ancestors(p, i - 1)) }

\* The last node of the subtree of i.
LastDesc(p, i, n) ==
  CHOOSE j \in i..n :
    /\ \A m \in (i + 1)..j : i \in Ancestors(p, m)
    /\ (j < n => i \notin Ancestors(p, j + 1))

\* The span the parser attaches to node i: it starts where the node's text
\* starts and ends where the text of its last descendant ends.
SpanOf(p, i, n) ==
  [lo |-> Stride * (i - 1), hi |-> Stride * LastDesc(p, i, n) - 1]

\* The tree of n nodes with kinds k and parent map p.
MkTree(n, k, p) ==
  [i \in 1..n |-> [kind |-> k[i], parent |-> p[i], span |-> SpanOf(p, i, n)]]

\* The children of node n (0: the root's body) in source order.
RECURSIVE ChildrenFrom(_, _, _)
ChildrenFrom(tr, n, i) ==
  IF i > Len(tr) THEN <<>>
  ELSE IF tr[i].parent = n THEN <<i>> \o ChildrenFrom(tr, n, i + 1)
  ELSE ChildrenFrom(tr, n, i + 1)

Children(tr, n) == ChildrenFrom(tr, n, 1)

\* A do-while statement has two children, its body (a statement) and then its
\* test; the test is an expression, so it is no declaration and no type node.
DoWhileShaped(tr) ==
  \A n \in 1..Len(tr) :
    tr[n].kind = "do_while" =>
      /\ Len(Children(tr, n)) = 2
      /\ tr[Children(tr, n)[2]].kind = "other"

\* tr is a well-formed tree of at most max nodes.
IsTree(tr, max) ==
  \E n \in 0..max : \E k \in [1..n -> Kinds], p \in ParentMaps(n) :
    /\ tr = MkTree(n, k, p)
    /\ DoWhileShaped(tr)

\* The children of node n in the order the default visit method of n visits
\* them, the order of the fields of its struct: for a do-while statement the
\* test, then the body; for any other node the source order.
FieldOrder(tr, n) ==
  IF tr[n].kind = "do_while"
    THEN <<Children(tr, n)[2], Children(tr, n)[1]>>
    ELSE Children(tr, n)

\* ----------------------------------------------------------------- context
add_diagnostic_front(diags, span, code, message) ==
  <<[span |-> span, code |-> code, message |-> message]>> \o diags

\* Context::add_diagnostic: append one diagnostic.
add_diagnostic(diags, span, code, message) ==
  Append(diags, [span |-> span, code |-> code, message |-> message])

\* A diagnostic another rule left in a Context before lint_program is called.
PriorDiagnostic ==
  [span |-> [lo |-> 5, hi |-> 7], code |-> "other-rule", message |-> "other"]

\* ----------------------------------------------------------------- visitor
BoundContextShared(t) == 1

\* NoVarVisitor::new: the visitor of traversal t holds the Context of t.
BoundContext(t) == t

visit_var_decl_any_kind(diags, var_decl) ==
  add_diagnostic(diags, var_decl.span, CODE, MESSAGE)

visit_var_decl_front(diags, var_decl) ==
  IF var_decl.kind = "var"
    THEN add_diagnostic_front(diags, var_decl.span, CODE, MESSAGE)
    ELSE diags

visit_var_decl_dummy_span(diags, var_decl) ==
  IF var_decl.kind = "var"
    THEN add_diagnostic(diags, [lo |-> 0, hi |-> 0], CODE, MESSAGE)
    ELSE diags

visit_var_decl_once(diags, var_decl) ==
  IF var_decl.kind = "var" /\ diags = <<>>
    THEN add_diagnostic(diags, var_decl.span, CODE, MESSAGE)
    ELSE diags

\* The body of visit_var_decl: the diagnostics after visiting var_decl.
visit_var_decl(diags, var_decl) ==
  IF var_decl.kind = "var"
    THEN add_diagnostic(diags, var_decl.span, CODE, MESSAGE)
    ELSE diags

VarDeclDescendAll(tr, n) == Children(tr, n)

\* The nodes visit_var_decl goes on to visit below declaration n: none, the
\* override does not call visit_children_with.
VarDeclDescend(tr, n) == <<>>

\* The nodes a noop_visit_type! method goes on to visit below type node n.
TypeDescend(tr, n) == <<>>

DispatchModuleOnly(v, tr) ==
  IF v = "Module"
    THEN [entry |-> <<"visit_module">>, start |-> Children(tr, 0)]
    ELSE [entry |-> <<>>, start |-> <<>>]

\* The match of lint_program: the entry point invoked for the variant and the
\* nodes it starts on (the items of the module body, the statements of the
\* script body).
Dispatch(v, tr) ==
  IF v = "Module"
    THEN [entry |-> <<"visit_module">>, start |-> Children(tr, 0)]
    ELSE [entry |-> <<"visit_script">>, start |-> Children(tr, 0)]

\* The nodes the visit method of node n goes on to visit below n.
Descend(tr, n) ==
  IF tr[n].kind \in VarDeclKinds THEN VarDeclDescend(tr, n)
  ELSE IF tr[n].kind = "type" THEN TypeDescend(tr, n)
  ELSE FieldOrder(tr, n)

RECURSIVE Walk(_, _, _)
\* The diagnostics after one visitor, alone, has visited the nodes of todo (and
\* what their visit methods descend into) starting from diags.
Walk(tr, todo, diags) ==
  IF todo = <<>> THEN diags
  ELSE LET n == Head(todo) IN
    Walk(tr, Descend(tr, n) \o Tail(todo),
         IF tr[n].kind \in VarDeclKinds THEN visit_var_decl(diags, tr[n]) ELSE diags)

\* The diagnostics of one call of lint_program, alone, on an empty Context.
lint_program(v, tr) == Walk(tr, Dispatch(v, tr).start, <<>>)

\* ------------------------------------------------------------------ actions
\* lint_program up to the call of the entry point.
LintProgram(t) ==
  /\ pc[t] = "ready"
  /\ LET d == Dispatch(variant[t], tree) IN
       /\ entry' = [entry EXCEPT ![t] = entry[t] \o d.entry]
       /\ stack' = [stack EXCEPT ![t] = d.start]
  /\ ctx0' = [ctx0 EXCEPT ![t] = ctx[t]]
  /\ pc' = [pc EXCEPT ![t] = "walking"]
  /\ UNCHANGED <<tree, variant, ctx, visits>>

\* visit_var_decl on the next node.
VisitVarDecl(t) ==
  /\ pc[t] = "walking"
  /\ stack[t] # <<>>
  /\ LET n == Head(stack[t]) IN
       /\ tree[n].kind \in VarDeclKinds
       /\ ctx' = [ctx EXCEPT ![BoundContext(t)] = visit_var_decl(@, tree[n])]
       /\ stack' = [stack EXCEPT ![t] = VarDeclDescend(tree, n) \o Tail(stack[t])]
       /\ visits' = [visits EXCEPT ![t][n] = @ + 1]
  /\ UNCHANGED <<tree, variant, pc, ctx0, entry>>

\* A visit method overridden by noop_visit_type! on the next node.
VisitType(t) ==
  /\ pc[t] = "walking"
  /\ stack[t] # <<>>
  /\ LET n == Head(stack[t]) IN
       /\ tree[n].kind = "type"
       /\ stack' = [stack EXCEPT ![t] = TypeDescend(tree, n) \o Tail(stack[t])]
       /\ visits' = [visits EXCEPT ![t][n] = @ + 1]
  /\ UNCHANGED <<tree, variant, pc, ctx, ctx0, entry>>

\* The default visit method on the next node: visit its children in the order
\* of its fields.
VisitDefault(t) ==
  /\ pc[t] = "walking"
  /\ stack[t] # <<>>
  /\ LET n == Head(stack[t]) IN
       /\ tree[n].kind \in {"other", "do_while"}
       /\ stack' = [stack EXCEPT ![t] = FieldOrder(tree, n) \o Tail(stack[t])]
       /\ visits' = [visits EXCEPT ![t][n] = @ + 1]
  /\ UNCHANGED <<tree, variant, pc, ctx, ctx0, entry>>

\* The entry point returns and lint_program with it.
Return(t) ==
  /\ pc[t] = "walking"
  /\ stack[t] = <<>>
  /\ pc' = [pc EXCEPT ![t] = "done"]
  /\ UNCHANGED <<tree, variant, stack, ctx, ctx0, visits, entry>>

Next ==
  \E t \in Runs :
    \/ LintProgram(t)
    \/ VisitVarDecl(t)
    \/ VisitType(t)
    \/ VisitDefault(t)
    \/ Return(t)

\* One traversal (run 1), on a Context that may already hold a diagnostic.
Init ==
  /\ IsTree(tree, MaxNodes)
  /\ variant \in [Runs -> Variants]
  /\ variant[2] = "Module"
  /\ pc = [t \in Runs |-> IF t = 1 THEN "ready" ELSE "idle"]
  /\ stack = [t \in Runs |-> <<>>]
  /\ ctx \in [Runs -> {<<>>, <<PriorDiagnostic>>}]
  /\ ctx[2] = <<>>
  /\ ctx0 = ctx
  /\ visits = [t \in Runs |-> [n \in 1..Len(tree) |-> 0]]
  /\ entry = [t \in Runs |-> <<>>]

Spec == Init /\ [][Next]_vars

\* Two traversals of the same tree, each on its own fresh Context.
InitConc ==
  /\ IsTree(tree, MaxNodesConc)
  /\ variant \in [Runs -> Variants]
  /\ pc = [t \in Runs |-> "ready"]
  /\ stack = [t \in Runs |-> <<>>]
  /\ ctx = [t \in Runs |-> <<>>]
  /\ ctx0 = ctx
  /\ visits = [t \in Runs |-> [n \in 1..Len(tree) |-> 0]]
  /\ entry = [t \in Runs |-> <<>>]

SpecConc == InitConc /\ [][Next]_vars

\* ------------------------------------------------------- claim vocabulary
\* The message the rule's tests expect, as character codes:
\* backquote v a r backquote, then " keyword is not allowed."
FixedMessage ==
  <<96, 118, 97, 114, 96>> \o
  <<32, 107, 101, 121, 119, 111, 114, 100>> \o
  <<32, 105, 115>> \o <<32, 110, 111, 116>> \o
  <<32, 97, 108, 108, 111, 119, 101, 100, 46>>

\* The diagnostics traversal t has appended since lint_program was called.
Appended(t) == SubSeq(ctx[t], Len(ctx0[t]) + 1, Len(ctx[t]))

IsPrefix(s, u) == Len(s) <= Len(u) /\ SubSeq(u, 1, Len(s)) = s

Nodes == 1..Len(tree)

\* The nodes of the tree of kind var, in source order.
VarNodes == SelectSeq([i \in Nodes |-> i], LAMBDA i : tree[i].kind = "var")

\* A node below which the visitor does not go: a declaration or a type node.
Pruning(n) == tree[n].kind \in VarDeclKinds \cup {"type"}

ParentOf == [i \in Nodes |-> tree[i].parent]

\* The var declarations that lie below no declaration and no type node.
OuterVarNodes ==
  SelectSeq(VarNodes, LAMBDA i : \A a \in Ancestors(ParentOf, i) : ~Pruning(a))

\* The diagnostic the rule gives for declaration n.
NoVarDiagnostic(n) ==
  [span |-> tree[n].span, code |-> "no-var", message |-> FixedMessage]

\* diags holds exactly one diagnostic for each declaration of ns, and no other.
OnePerNode(diags, ns) ==
  /\ Len(diags) = Len(ns)
  /\ \A k \in 1..Len(ns) :
       Cardinality({i \in 1..Len(diags) : diags[i] = NoVarDiagnostic(ns[k])}) = 1

\* The declaration the i-th appended diagnostic of traversal 1 has its span from.
NodeOf(i) == CHOOSE n \in Nodes : tree[n].span = Appended(1)[i].span

\* Diagnostics i and j come from declarations inside one do-while statement.
InOneDoWhile(i, j) ==
  \E a \in Ancestors(ParentOf, NodeOf(i)) \cap Ancestors(ParentOf, NodeOf(j)) :
    tree[a].kind = "do_while"

\* All nodes hang directly off the root and are declarations.
Flat == \A n \in Nodes : tree[n].parent = 0 /\ tree[n].kind \in VarDeclKinds

KindsOf == [i \in Nodes |-> tree[i].kind]

Columns(diags) == [i \in 1..Len(diags) |-> diags[i].span.lo]

\* ------------------------------------------------------------------ claims
\* C1: when lint_program has returned, the diagnostics it appended are exactly
\* one no-var diagnostic per var declaration of the tree, at any depth, each
\* with that declaration's span; their number is the number of var declarations.
C1_EveryVarReported ==
  pc[1] = "done" => OnePerNode(Appended(1), VarNodes)

\* C2: every diagnostic appended comes from a declaration of kind var (never
\* from a let or const), and a tree without var declarations gets none.
C2_OnlyVarReported ==
  /\ \A i \in 1..Len(Appended(1)) :
       \E n \in Nodes : tree[n].kind = "var" /\ Appended(1)[i].span = tree[n].span
  /\ (VarNodes = <<>> => Appended(1) = <<>>)

C2_Witness ==
  /\ pc[1] = "done"
  /\ VarNodes = <<>>
  /\ Appended(1) = <<>>
  /\ \E a, b \in Nodes :
       /\ tree[a].kind = "let" /\ tree[b].kind = "const"
       /\ tree[b].parent # 0
       /\ visits[1][a] = 1 /\ visits[1][b] = 1

C4_EveryNodeVisitedOnce ==
  pc[1] = "done" => \A n \in Nodes : visits[1][n] = 1

\* C5: for a flat program of top-level declarations the diagnostics are, in
\* order, one per var declaration with its start column and the fixed message:
\* let, var, var gives columns 13 and 26; let, const gives none.
C5_FlatProgram ==
  (pc[1] = "done" /\ Flat) =>
    /\ Len(Appended(1)) = Len(VarNodes)
    /\ \A i \in 1..Len(Appended(1)) :
         /\ Appended(1)[i].span.lo = tree[VarNodes[i]].span.lo
         /\ Appended(1)[i].message = FixedMessage
    /\ (KindsOf = <<"var">> => Columns(Appended(1)) = <<0>>)
    /\ (KindsOf = <<"let", "var">> => Columns(Appended(1)) = <<13>>)
    /\ (KindsOf = <<"let", "var", "var">> => Columns(Appended(1)) = <<13, 26>>)
    /\ (KindsOf = <<"let", "const">> => Appended(1) = <<>>)

C5_Witness ==
  /\ pc[1] = "done"
  /\ Flat
  /\ KindsOf = <<"let", "var", "var">>
  /\ Columns(Appended(1)) = <<13, 26>>

\* C7: under every interleaving of two traversals of the same tree, each
\* Context holds at every point a prefix of, and at the end exactly, the
\* diagnostics its traversal produces when run alone.
C7_Isolated ==
  \A t \in Runs :
    /\ IsPrefix(ctx[t], lint_program(variant[t], tree))
    /\ (pc[t] = "done" => ctx[t] = lint_program(variant[t], tree))

C7_Witness ==
  /\ \A t \in Runs : pc[t] = "walking" /\ stack[t] # <<>> /\ ctx[t] # <<>>
  /\ Len(ctx[1]) # Len(ctx[2])

\* C8: lint_program invokes exactly one entry point, the one of the variant,
\* and a Module and a Script with the same body get the same diagnostics.
C8_VariantIndependent ==
  /\ \A t \in Runs :
       pc[t] \in {"walking", "done"} =>
         entry[t] = <<IF variant[t] = "Module" THEN "visit_module" ELSE "visit_script">>
  /\ (pc[1] = "done" /\ pc[2] = "done" /\ variant[1] # variant[2]) => ctx[1] = ctx[2]

C8_Witness ==
  /\ pc[1] = "done" /\ pc[2] = "done"
  /\ variant[1] = "Module" /\ variant[2] = "Script"
  /\ entry[1] = <<"visit_module">> /\ entry[2] = <<"visit_script">>
  /\ ctx[1] # <<>>
  /\ ctx[1] = ctx[2]

\* C9: the visitor never visits a node below a declaration (var, let or const)
\* or below a type node, so the diagnostics are exactly the var declarations
\* that lie below no declaration and no type node.
C9_NoDescentBelowDeclarations ==
  /\ \A n \in Nodes :
       (\E a \in Ancestors(ParentOf, n) : Pruning(a)) => visits[1][n] = 0
  /\ (pc[1] = "done" => OnePerNode(Appended(1), OuterVarNodes))

C9_Witness ==
  /\ pc[1] = "done"
  /\ \E a, b, c, d \in Nodes :
       /\ tree[a].kind \in VarDeclKinds /\ tree[b].kind = "var" /\ tree[b].parent = a
       /\ tree[c].kind = "type" /\ tree[d].kind = "var" /\ tree[d].parent = c
       /\ visits[1][b] = 0 /\ visits[1][d] = 0
  /\ Len(OuterVarNodes) < Len(VarNodes)
  /\ OnePerNode(Appended(1), OuterVarNodes)

\* C10: every step of lint_program leaves the tree unchanged and either leaves
\* a Context unchanged or appends to it one diagnostic with the span of the
\* node being visited, the code no-var and the fixed message; so what a
\* Context held before the call stays an unchanged prefix of it.
C10_OnlyAppends ==
  [][ /\ tree' = tree
      /\ \A t \in Runs :
           \/ ctx'[t] = ctx[t]
           \/ /\ stack[t] # <<>>
              /\ ctx'[t] = Append(ctx[t],
                   [span |-> tree[Head(stack[t])].span,
                    code |-> "no-var",
                    message |-> FixedMessage]) ]_vars

C10_Witness ==
  /\ pc[1] = "done"
  /\ ctx0[1] = <<PriorDiagnostic>>
  /\ Len(ctx[1]) >= 3
  /\ IsPrefix(ctx0[1], ctx[1])

====
